---- MODULE Spec2Model ----
(***************************************************************************)
(* Model of the archive engine of discord-to-obsidian:                     *)
(*   storage.py  StorageManager (path resolution, header, append, purge)   *)
(*   bot.py      the handlers that call it (live events, backfill, purge)  *)
(*                                                                         *)
(* Text is modelled as a sequence of one-character strings, a path as the  *)
(* sequence of its parts (pathlib's .parts), a file as the sequence of the *)
(* blocks written to it (one header block or one entry block per write).   *)
(* An entry block keeps the fields the handlers set (heading stamp,        *)
(* message id, event kind); author, content and attachment lines are text  *)
(* that no operation reads back and are left out.                          *)
(***************************************************************************)
EXTENDS Integers, Sequences, FiniteSets, TLC

VARIABLES
    args,       \* inputs of the function under check; the last call of ConfigManager
    ret,        \* its results so far, in call order; the outcome of that last call
    _cache,     \* ConfigManager._cache: guild id -> GuildConfig instance
    configs_json, \* the content of CONFIG_PATH, the persisted table
    config,     \* the GuildConfig the handlers of the archive specifications use
    files,      \* the file tree: resolved path -> sequence of blocks
    dirs,       \* the directories that exist
    clock,      \* datetime.now(timezone.utc), a logical time
    sent,       \* the messages the guild's channels hold, oldest first
    backfill,   \* config_backfill: the history still to persist, and its count
    calls,      \* caller -> the StorageManager operation it is inside, and where
    appended,   \* history: path -> the entries append_message wrote since the path was last absent or empty
    purged,     \* history: the paths some purge has unlinked
    lastPurge   \* history: the purge calls that returned, with what each unlinked

vars == <<args, ret, _cache, configs_json, config, files, dirs, clock, sent,
          backfill, calls, appended, purged, lastPurge>>

configVars == <<_cache, configs_json>>

(***************************************************************************)
(* Bounds of the model.                                                    *)
(***************************************************************************)
MaxNameLen == 3     \* longest raw name given to _safe in SpecSanitize
MaxHour == 35       \* hours after FirstHour that event timestamps range over
MaxAppends == 2     \* append_message calls in one behaviour of Spec
MaxPurges == 1      \* purge calls in one behaviour of Spec
MaxCalls == 3       \* StorageManager calls in one behaviour of SpecCallers
MaxResolves == 2    \* determine_file_path calls recorded in one behaviour of SpecAdmin

(***************************************************************************)
(* Text.                                                                   *)
(***************************************************************************)
Letters ==
    {"a","b","c","d","e","f","g","h","i","j","k","l","m","n","o","p","q","r",
     "s","t","u","v","w","x","y","z","A","B","C","D","E","F","G","H","I","J",
     "K","L","M","N","O","P","Q","R","S","T","U","V","W","X","Y","Z"}

DigitChars == <<"0","1","2","3","4","5","6","7","8","9">>

\* the complement of SANITIZE_PATTERN's character class [^A-Za-z0-9_.-]
SafeChars == Letters \cup {DigitChars[i] : i \in 1..10} \cup {"_", ".", "-"}

\* what str.strip() with no argument removes
Whitespace == {" ", "\t", "\n"}

RECURSIVE lstrip(_, _)
lstrip(s, chars) ==
    IF s # <<>> /\ Head(s) \in chars THEN lstrip(Tail(s), chars) ELSE s

RECURSIVE rstrip(_, _)
rstrip(s, chars) ==
    IF s # <<>> /\ s[Len(s)] \in chars
    THEN rstrip(SubSeq(s, 1, Len(s) - 1), chars)
    ELSE s

strip(s, chars) == rstrip(lstrip(s, chars), chars)

\* SANITIZE_PATTERN.sub("-", s): every maximal run of characters outside
\* SafeChars becomes one "-"; inRun says the previous character was in a run.
RECURSIVE sub_runs(_, _)
sub_runs(s, inRun) ==
    IF s = <<>> THEN <<>>
    ELSE IF Head(s) \in SafeChars THEN <<Head(s)>> \o sub_runs(Tail(s), FALSE)
    ELSE IF inRun THEN sub_runs(Tail(s), TRUE)
    ELSE <<"-">> \o sub_runs(Tail(s), TRUE)

Untitled == <<"u","n","t","i","t","l","e","d">>

\* _safe without its final strip("-")
_safe_untrimmed(value) ==
    LET cleaned == sub_runs(strip(value, Whitespace), FALSE)
    IN  IF cleaned = <<>> THEN Untitled ELSE cleaned

\* StorageManager._safe
_safe(value) ==
    LET cleaned == sub_runs(strip(value, Whitespace), FALSE)
        trimmed == strip(cleaned, {"-"})
    IN  IF trimmed = <<>> THEN Untitled ELSE trimmed

\* str(n) of a non-negative integer
RECURSIVE str(_)
str(n) ==
    IF n < 10 THEN <<DigitChars[n + 1]>>
    ELSE str(n \div 10) \o <<DigitChars[(n % 10) + 1]>>

\* f"{n:0{width}d}"
RECURSIVE zero_pad(_, _)
zero_pad(s, width) == IF Len(s) >= width THEN s ELSE zero_pad(<<"0">> \o s, width)

format_d(n, width) == zero_pad(str(n), width)

IsPrefix(s, t) == Len(s) <= Len(t) /\ SubSeq(t, 1, Len(s)) = s

(***************************************************************************)
(* Paths (pathlib.PurePosixPath): a path is the sequence of its parts, an  *)
(* absolute one starting with the part "/".                                *)
(***************************************************************************)
Anchor == <<"/">>
Dot == <<".">>
DotDot == <<".", ".">>
MdSuffix == <<".", "m", "d">>

\* s.split(sep): the pieces between the separators, empty ones included;
\* done holds the finished pieces, piece the one being read
RECURSIVE split_from(_, _, _, _)
split_from(s, sep, done, piece) ==
    IF s = <<>> THEN Append(done, piece)
    ELSE IF Head(s) = sep THEN split_from(Tail(s), sep, Append(done, piece), <<>>)
    ELSE split_from(Tail(s), sep, done, Append(piece, Head(s)))

split(s, sep) == split_from(s, sep, <<>>, <<>>)

\* Path(text): empty and "." pieces are dropped, ".." is kept
Path(text) ==
    LET pieces == SelectSeq(split(text, "/"), LAMBDA x : x # <<>> /\ x # Dot)
    IN  IF text # <<>> /\ text[1] = "/" THEN <<Anchor>> \o pieces ELSE pieces

\* a / b: an absolute right operand replaces the left one
joinpath(a, b) == IF b # <<>> /\ b[1] = Anchor THEN b ELSE a \o b

parent(p) == IF Len(p) <= 1 THEN p ELSE SubSeq(p, 1, Len(p) - 1)

\* the file the operating system reaches through a path: ".." steps up
RECURSIVE resolve_from(_, _)
resolve_from(stack, p) ==
    IF p = <<>> THEN stack
    ELSE IF Head(p) # DotDot THEN resolve_from(Append(stack, Head(p)), Tail(p))
    ELSE IF stack = <<>> \/ stack[Len(stack)] = DotDot
         THEN resolve_from(Append(stack, DotDot), Tail(p))
    ELSE IF stack[Len(stack)] = Anchor THEN resolve_from(stack, Tail(p))
    ELSE resolve_from(SubSeq(stack, 1, Len(stack) - 1), Tail(p))

resolved(p) == resolve_from(<<>>, p)

\* PurePath.suffix of a final part: from its last "." on, unless that "." is
\* the first or the last character
LastDot(name) ==
    LET at == {i \in 1..Len(name) : name[i] = "."}
    IN  IF at = {} THEN 0 ELSE CHOOSE i \in at : \A j \in at : j <= i

suffix(name) ==
    LET i == LastDot(name)
    IN  IF i > 1 /\ i < Len(name) THEN SubSeq(name, i, Len(name)) ELSE <<>>

\* PurePath.with_suffix on a path with a final part
with_suffix(p, suf) ==
    LET name == p[Len(p)]
        stem == SubSeq(name, 1, Len(name) - Len(suffix(name)))
    IN  SubSeq(p, 1, Len(p) - 1) \o <<stem \o suf>>

\* Path.mkdir(parents=True, exist_ok=True): the directory and its ancestors
mkdir_parents(p) == {resolved(SubSeq(p, 1, k)) : k \in 1..Len(p)}

(***************************************************************************)
(* Dates. A timestamp is an aware UTC datetime, counted in whole hours     *)
(* since 1970-01-01T00:00Z; a local time is the same count on the zone's   *)
(* wall clock. The calendar is the proleptic Gregorian one of datetime.    *)
(***************************************************************************)
days_from_civil(y, m, d) ==
    LET yy  == IF m <= 2 THEN y - 1 ELSE y
        era == yy \div 400
        yoe == yy - era * 400
        mp  == IF m > 2 THEN m - 3 ELSE m + 9
        doy == (153 * mp + 2) \div 5 + d - 1
        doe == yoe * 365 + yoe \div 4 - yoe \div 100 + doy
    IN  era * 146097 + doe - 719468

civil_from_days(z) ==
    LET zz  == z + 719468
        era == zz \div 146097
        doe == zz - era * 146097
        yoe == (doe - doe \div 1460 + doe \div 36524 - doe \div 146096) \div 365
        doy == doe - (365 * yoe + yoe \div 4 - yoe \div 100)
        mp  == (5 * doy + 2) \div 153
        d   == doy - (153 * mp + 2) \div 5 + 1
        m   == IF mp < 10 THEN mp + 3 ELSE mp - 9
        y   == yoe + era * 400
    IN  [year |-> IF m <= 2 THEN y + 1 ELSE y, month |-> m, day |-> d]

\* ZoneInfo(name).utcoffset, in hours, of zones without daylight saving
utcoffset(zone) ==
    CASE zone = "UTC" -> 0
      [] zone = "Asia/Tokyo" -> 9
      [] zone = "Pacific/Honolulu" -> 0 - 10

\* astimezone that keeps the UTC wall clock
astimezone_utc(timestamp, zone) == timestamp

\* timestamp.astimezone(ZoneInfo(zone)): the wall-clock hour count
astimezone(timestamp, zone) == timestamp + utcoffset(zone)

\* the date fields of a wall-clock hour count
date_of(hours) == civil_from_days(hours \div 24)

\* a day of the year counted from 0
tm_yday_from_zero(hours) ==
    (hours \div 24) - days_from_civil(civil_from_days(hours \div 24).year, 1, 1)

\* time.struct_time.tm_yday, counted from 1
tm_yday(hours) ==
    (hours \div 24) - days_from_civil(date_of(hours).year, 1, 1) + 1

\* strftime("%Y-%m-%d"), strftime("%Y-%m") and strftime("%Y-%m-%d %H:%M")
strftime_date(hours) ==
    LET d == date_of(hours)
    IN  format_d(d.year, 4) \o <<"-">> \o format_d(d.month, 2) \o <<"-">>
        \o format_d(d.day, 2)

strftime_month(hours) ==
    LET d == date_of(hours)
    IN  format_d(d.year, 4) \o <<"-">> \o format_d(d.month, 2)

strftime_stamp(hours) ==
    strftime_date(hours) \o <<" ">> \o format_d(hours % 24, 2)
    \o <<":", "0", "0">>

(***************************************************************************)
(* Configuration records (config.py, GuildConfig).                         *)
(***************************************************************************)
None == <<>>

\* DEFAULT_FILENAME_TEMPLATE = "{channel}/{year}-{month}-{day}": a template
\* is a sequence of characters and of the four replacement fields
DEFAULT_FILENAME_TEMPLATE ==
    <<"{channel}", "/", "{year}", "-", "{month}", "-", "{day}">>

Vaults == <<"v","a","u","l","t","s">>

\* GuildConfig(guild_id=guild_id): the dataclass defaults
GuildConfig(guild_id) ==
    [guild_id |-> guild_id,
     vault_path |-> Vaults,
     export_mode |-> "monthly",
     timezone |-> "UTC",
     include_channels |-> <<>>,
     exclude_channels |-> <<>>,
     admin_role_id |-> None,
     filename_template |-> DEFAULT_FILENAME_TEMPLATE,
     custom_period_days |-> 7]

Max(a, b) == IF a >= b THEN a ELSE b

(***************************************************************************)
(* StorageManager: path helpers.                                           *)
(***************************************************************************)
\* STORAGE_ROOT = Path("data") / "vault", the root the bot constructs it with
STORAGE_ROOT == << <<"d","a","t","a">>, <<"v","a","u","l","t">> >>

\* StorageManager._base_dir, the path it returns
_base_dir(guild_id, vault_path) ==
    joinpath(joinpath(STORAGE_ROOT, <<str(guild_id)>>), Path(vault_path))

\* str.format(channel=..., year=..., month=..., day=...) on a template
RECURSIVE format(_, _, _, _, _)
format(template, channel, year, month, day) ==
    IF template = <<>> THEN <<>>
    ELSE LET field == Head(template)
             text == CASE field = "{channel}" -> channel
                       [] field = "{year}" -> year
                       [] field = "{month}" -> month
                       [] field = "{day}" -> day
                       [] OTHER -> <<field>>
         IN  text \o format(Tail(template), channel, year, month, day)

\* StorageManager.determine_file_path, the path it returns
determine_file_path(cfg, channel_name, timestamp) ==
    LET local_time == astimezone(timestamp, cfg.timezone)
        channel_slug == _safe(channel_name)
        base_dir == _base_dir(cfg.guild_id, cfg.vault_path)
        year == format_d(date_of(local_time).year, 4)
        month == format_d(date_of(local_time).month, 2)
        day == format_d(date_of(local_time).day, 2)
        days == Max(1, cfg.custom_period_days)
        bucket_start == local_time - 24 * (tm_yday(local_time) % days)
        rendered == Path(format(cfg.filename_template, channel_slug, year, month, day))
        rel_path ==
            CASE cfg.export_mode = "single" -> Path(channel_slug \o MdSuffix)
              [] cfg.export_mode = "daily" ->
                    joinpath(Path(channel_slug),
                             Path(year \o <<"-">> \o month \o <<"-">> \o day \o MdSuffix))
              [] cfg.export_mode = "monthly" ->
                    joinpath(Path(channel_slug),
                             Path(year \o <<"-">> \o month \o MdSuffix))
              [] cfg.export_mode = "custom" ->
                    joinpath(Path(channel_slug),
                             Path(strftime_date(bucket_start) \o <<"_", "d">>
                                  \o str(days) \o MdSuffix))
              [] OTHER ->
                    IF suffix(rendered[Len(rendered)]) = <<>>
                    THEN with_suffix(rendered, MdSuffix)
                    ELSE rendered
    IN  joinpath(base_dir, rel_path)

\* the directories determine_file_path makes on the way (lines 44 and 86)
determine_file_path_mkdirs(cfg, channel_name, timestamp) ==
    mkdir_parents(_base_dir(cfg.guild_id, cfg.vault_path))
    \cup mkdir_parents(parent(determine_file_path(cfg, channel_name, timestamp)))

(***************************************************************************)
(* The state the archive specifications start in, and hold still in the    *)
(* specifications of the pure functions.                                   *)
(***************************************************************************)
NoFiles == [p \in {} |-> <<>>]

Callers == {"c1", "c2"}

Idle == [op |-> "idle"]

ArchiveStart ==
    /\ dirs = mkdir_parents(STORAGE_ROOT)
    /\ clock = 0
    /\ sent = <<>>
    /\ backfill = [queue |-> <<>>, count |-> 0, running |-> FALSE]
    /\ calls = [c \in Callers |-> Idle]
    /\ appended = NoFiles
    /\ purged = {}
    /\ lastPurge = <<>>

\* no ConfigManager yet, and no file at CONFIG_PATH
Missing == [kind |-> "missing"]

ConfigStart ==
    /\ _cache = <<>>
    /\ configs_json = Missing

archiveVars == <<config, files, clock, sent, backfill, calls, appended,
                 purged, lastPurge>>

(***************************************************************************)
(* SpecSanitize: _safe applied to every short text over an alphabet that   *)
(* holds safe characters, the dash, whitespace and unsafe characters, and  *)
(* then applied again to its own result.                                   *)
(***************************************************************************)
Alphabet == {"a", "Z", "7", "_", ".", "-", " ", "/"}

Names == UNION {[1..n -> Alphabet] : n \in 0..MaxNameLen}

InitSanitize ==
    /\ args \in [value : Names]
    /\ ret = <<>>
    /\ config = GuildConfig(1)
    /\ files = NoFiles
    /\ ArchiveStart
    /\ ConfigStart

Sanitize ==
    /\ ret = <<>>
    /\ ret' = <<_safe(args.value)>>
    /\ UNCHANGED <<configVars, args, dirs, archiveVars>>

Resanitize ==
    /\ Len(ret) = 1
    /\ ret' = Append(ret, _safe(ret[1]))
    /\ UNCHANGED <<configVars, args, dirs, archiveVars>>

NextSanitize == Sanitize \/ Resanitize

SpecSanitize == InitSanitize /\ [][NextSanitize]_vars

(***************************************************************************)
(* SpecResolve: determine_file_path called for a configuration and a       *)
(* sequence of (channel name, timestamp) requests. The inputs are three    *)
(* families: every export mode and zone with two timestamps over a range   *)
(* of hours that crosses a month end; every guild, vault path, export mode *)
(* and template with one channel name on two days; and every export mode   *)
(* with two channel names at one timestamp; and custom mode with every     *)
(* zone, period lengths below, at and above 1, at hours of the 3rd and     *)
(* 10th of January and the 31st of December.                               *)
(***************************************************************************)
General == <<"g","e","n","e","r","a","l">>
Data == <<"d","a","t","a">>
DevOpsSpaced == <<"d","e","v"," ","o","p","s">>
DevOpsDashed == <<"d","e","v","-","o","p","s">>

ChannelNames == {General, Data, DevOpsSpaced, DevOpsDashed, DotDot}

ExportModes == {"single", "daily", "monthly", "custom", "template"}

Zones == {"UTC", "Asia/Tokyo", "Pacific/Honolulu"}

GuildIds == {1, 2}

\* "vaults" and "../2"
VaultPaths == {Vaults, <<".", ".", "/", "2">>}

\* the default and "{year}/{channel}.txt"
Templates ==
    {DEFAULT_FILENAME_TEMPLATE, <<"{year}", "/", "{channel}", ".", "t", "x", "t">>}

\* 2024-01-31T00:00Z
FirstHour == 19753 * 24

Timestamps == FirstHour .. (FirstHour + MaxHour)

BucketInputs ==
    {[config |-> [GuildConfig(1) EXCEPT !.export_mode = m, !.timezone = z],
      requests |-> <<[channel_name |-> General, timestamp |-> t1],
                     [channel_name |-> General, timestamp |-> t2]>>] :
        m \in ExportModes, z \in Zones, t1 \in Timestamps, t2 \in Timestamps}

LayoutInputs ==
    {[config |-> [GuildConfig(g) EXCEPT !.vault_path = v, !.export_mode = m,
                                        !.filename_template = f],
      requests |-> <<[channel_name |-> c, timestamp |-> FirstHour],
                     [channel_name |-> c, timestamp |-> FirstHour + 24]>>] :
        g \in GuildIds, v \in VaultPaths, m \in ExportModes, f \in Templates,
        c \in ChannelNames}

ChannelInputs ==
    {[config |-> [GuildConfig(1) EXCEPT !.export_mode = m],
      requests |-> <<[channel_name |-> c1, timestamp |-> FirstHour],
                     [channel_name |-> c2, timestamp |-> FirstHour]>>] :
        m \in ExportModes, c1 \in ChannelNames, c2 \in ChannelNames}

\* custom_period_days as set_export_mode can store them (custom_days or 7)
CustomPeriodDays == {0 - 1, 0, 1, 3, 7}

\* 2018-01-03T12:00Z, 2018-01-10 at 00:00Z, 12:00Z and 23:00Z, 2018-12-31T12:00Z
CustomHours ==
    {17534 * 24 + 12, 17541 * 24, 17541 * 24 + 12, 17541 * 24 + 23, 17896 * 24 + 12}

CustomInputs ==
    {[config |-> [GuildConfig(1) EXCEPT !.export_mode = "custom", !.timezone = z,
                                        !.custom_period_days = n],
      requests |-> <<[channel_name |-> c, timestamp |-> t],
                     [channel_name |-> c, timestamp |-> t + 24]>>] :
        z \in Zones, n \in CustomPeriodDays, c \in {General, DevOpsSpaced},
        t \in CustomHours}

InitResolve ==
    /\ args \in BucketInputs \cup LayoutInputs \cup ChannelInputs \cup CustomInputs
    /\ ret = <<>>
    /\ config = args.config
    /\ files = NoFiles
    /\ ArchiveStart
    /\ ConfigStart

Resolve ==
    /\ Len(ret) < Len(args.requests)
    /\ LET request == args.requests[Len(ret) + 1]
       IN  /\ ret' = Append(ret, determine_file_path(
                        args.config, request.channel_name, request.timestamp))
           /\ dirs' = dirs \cup determine_file_path_mkdirs(
                        args.config, request.channel_name, request.timestamp)
    /\ UNCHANGED <<configVars, args, archiveVars>>

NextResolve == Resolve

SpecResolve == InitResolve /\ [][NextResolve]_vars

(***************************************************************************)
(* Properties of _safe (SpecSanitize).                                     *)
(***************************************************************************)
WellFormedSlug(slug) ==
    /\ slug # <<>>
    /\ \A i \in 1..Len(slug) : slug[i] \in SafeChars
    /\ slug[1] # "-"
    /\ slug[Len(slug)] # "-"

\* C8: for every text s, _safe(s) holds only characters of [A-Za-z0-9_.-],
\* neither starts nor ends with "-", is never empty (an empty result becomes
\* "untitled"), and _safe(_safe(s)) = _safe(s).
C8_SafeWellFormedIdempotent ==
    /\ Len(ret) >= 1 => WellFormedSlug(ret[1])
    /\ Len(ret) = 2 => ret[2] = ret[1]

\* a text of unsafe characters only was sanitized twice and fell back to
\* "untitled" both times
C8_Witness ==
    /\ Len(ret) = 2
    /\ args.value # <<>>
    /\ \A i \in 1..Len(args.value) : args.value[i] \notin SafeChars
    /\ ret[1] = Untitled

(***************************************************************************)
(* ConfigManager (config.py). A GuildConfig instance is the function from  *)
(* its attribute names to their values: the nine dataclass fields, and     *)
(* whatever setattr has added. The file at CONFIG_PATH is a document:      *)
(* missing, text that is no JSON, a JSON value that is no object, or a     *)
(* JSON object, the sequence of its members in file order.                 *)
(***************************************************************************)
\* the dataclass fields of GuildConfig
Fields ==
    {"guild_id", "vault_path", "export_mode", "timezone", "include_channels",
     "exclude_channels", "admin_role_id", "filename_template", "custom_period_days"}

\* the fields without a default on the class: guild_id, and the two whose
\* default is a default_factory
NoClassDefault == {"guild_id", "include_channels", "exclude_channels"}

\* the attributes an instance has through its class: the two methods, and
\* __dict__, the dictionary of its own attributes
ClassAttributes == {"to_dict", "from_dict", "__dict__"}

hasattr(instance, key) == key \in DOMAIN instance \cup ClassAttributes

\* the instance after setattr(config, key, value) for every key of kwargs
\* that hasattr accepts (lines 87-89); setting __dict__, given as the first
\* keyword, replaces the attributes the instance holds
setattrs(instance, kwargs) ==
    LET held == IF "__dict__" \in DOMAIN kwargs THEN kwargs["__dict__"] ELSE instance
        applied == {key \in DOMAIN kwargs \ {"__dict__"} : hasattr(held, key)}
    IN  [key \in DOMAIN held \cup applied |->
            IF key \in applied THEN kwargs[key] ELSE held[key]]

\* config.to_dict() raises: an instance attribute hides the method
\* (TypeError), or a field has neither a value nor a default (AttributeError)
to_dict_raises(instance) ==
    \/ "to_dict" \in DOMAIN instance
    \/ ~(NoClassDefault \subseteq DOMAIN instance)

\* to_dict that leaves custom_period_days out
to_dict_without_period(instance) ==
    [name \in Fields \ {"custom_period_days"} |->
        IF name \in DOMAIN instance THEN instance[name] ELSE GuildConfig(0)[name]]

\* GuildConfig.to_dict: self.name is the instance's value or the class default
to_dict(instance) ==
    [name \in Fields |->
        IF name \in DOMAIN instance THEN instance[name] ELSE GuildConfig(0)[name]]

\* int(text) of a JSON member name: the value of a run of digits; int raises
\* ValueError for a text that is none
IsDigits(text) ==
    /\ text # <<>>
    /\ \A i \in 1..Len(text) : \E d \in 1..10 : DigitChars[d] = text[i]

RECURSIVE int_from(_, _)
int_from(text, n) ==
    IF text = <<>> THEN n
    ELSE int_from(Tail(text),
                  10 * n + (CHOOSE d \in 0..9 : DigitChars[d + 1] = Head(text)))

int(text) == int_from(text, 0)

\* GuildConfig.from_dict on a JSON object: data.get(name, default)
from_dict(data) ==
    [name \in Fields |-> IF name \in DOMAIN data THEN data[name]
                         ELSE GuildConfig(0)[name]]

\* the exception from_dict raises on a JSON value, or None
from_dict_raises(value) ==
    IF value.kind # "object" THEN "TypeError"
    ELSE IF "guild_id" \notin DOMAIN value.fields THEN "KeyError"
    ELSE "None"

\* the guild ids of a table in ascending order (json.dumps, sort_keys=True)
RECURSIVE sorted(_)
sorted(ids) ==
    IF ids = {} THEN <<>>
    ELSE LET least == CHOOSE g \in ids : \A h \in ids : g <= h
         IN  <<least>> \o sorted(ids \ {least})

\* _save raises: building serialized calls to_dict on every record
_save_raises(cache) == \E g \in DOMAIN cache : to_dict_raises(cache[g])

\* _save: the document json.dumps(serialized, indent=2, sort_keys=True) writes
_save(cache, document) ==
    [kind |-> "object",
     members |-> [i \in 1..Cardinality(DOMAIN cache) |->
                     [key |-> str(sorted(DOMAIN cache)[i]),
                      value |-> [kind |-> "object",
                                 fields |-> to_dict(cache[sorted(DOMAIN cache)[i]])]]]]

\* a table with one more record, or one record replaced
Put(cache, guild_id, instance) ==
    [g \in DOMAIN cache \cup {guild_id} |->
        IF g = guild_id THEN instance ELSE cache[g]]

\* the loop of _load over the members (lines 72-73): the table, or the
\* exception of the first member that raises
RECURSIVE load_members(_, _)
load_members(members, cache) ==
    IF members = <<>> THEN [cache |-> cache]
    ELSE LET member == Head(members)
         IN  IF ~IsDigits(member.key) THEN [raised |-> "ValueError"]
             ELSE IF from_dict_raises(member.value) # "None"
                  THEN [raised |-> from_dict_raises(member.value)]
                  ELSE load_members(Tail(members),
                                    Put(cache, int(member.key),
                                        from_dict(member.value.fields)))

\* ConfigManager._load on a new manager: the table, or the exception
_load(document) ==
    CASE document.kind = "missing" -> [cache |-> <<>>]
      [] document.kind = "text" -> [cache |-> <<>>]
      [] document.kind = "object" -> load_members(document.members, <<>>)
      [] OTHER -> [raised |-> "AttributeError"]

Raised(outcome) == "raised" \in DOMAIN outcome

\* get that makes a fresh record every time
get_fresh(cache, guild_id) == Put(cache, guild_id, GuildConfig(guild_id))

\* ConfigManager.get, the table it leaves (lines 80-81)
get(cache, guild_id) ==
    IF guild_id \in DOMAIN cache THEN cache
    ELSE Put(cache, guild_id, GuildConfig(guild_id))

\* the manager exists: ConfigManager(CONFIG_PATH) has returned
Running == args.op # "none" /\ ~(args.op = "load" /\ Raised(ret[1]))

\* ConfigManager.__init__: the bot starts, or starts again
Load ==
    /\ args' = [op |-> "load"]
    /\ ret' = <<_load(configs_json)>>
    /\ _cache' = IF Raised(_load(configs_json)) THEN <<>> ELSE _load(configs_json).cache
    /\ UNCHANGED <<configs_json, dirs, archiveVars>>

\* ConfigManager.get(guild_id)
Get(guild_id) ==
    /\ Running
    /\ args' = [op |-> "get", guild_id |-> guild_id]
    /\ _cache' = get(_cache, guild_id)
    /\ IF _cache' = _cache
       THEN /\ ret' = <<[returned |-> _cache'[guild_id]]>>
            /\ UNCHANGED configs_json
       ELSE IF _save_raises(_cache')
            THEN /\ ret' = <<[raised |-> "TypeError"]>>
                 /\ UNCHANGED configs_json
            ELSE /\ ret' = <<[returned |-> _cache'[guild_id]]>>
                 /\ configs_json' = _save(_cache', configs_json)
    /\ UNCHANGED <<dirs, archiveVars>>

\* ConfigManager.update(guild_id, **kwargs)
Update(guild_id, kwargs) ==
    LET got == get(_cache, guild_id)
        saved == IF got = _cache THEN configs_json ELSE _save(got, configs_json)
        set == Put(got, guild_id, setattrs(got[guild_id], kwargs))
    IN  /\ Running
        /\ args' = [op |-> "update", guild_id |-> guild_id, kwargs |-> kwargs]
        /\ IF "guild_id" \in DOMAIN kwargs
           THEN \* the call itself raises: two values for the parameter guild_id
                /\ ret' = <<[raised |-> "TypeError"]>>
                /\ UNCHANGED <<_cache, configs_json>>
           ELSE IF got # _cache /\ _save_raises(got)
           THEN /\ _cache' = got
                /\ ret' = <<[raised |-> "TypeError"]>>
                /\ UNCHANGED configs_json
           ELSE /\ _cache' = set
                /\ IF _save_raises(set)
                   THEN /\ ret' = <<[raised |-> "TypeError"]>>
                        /\ configs_json' = saved
                   ELSE /\ ret' = <<[returned |-> set[guild_id]]>>
                        /\ configs_json' = _save(set, saved)
        /\ UNCHANGED <<dirs, archiveVars>>

(***************************************************************************)
(* SpecConfig: the ConfigManager of the bot. It is constructed over the    *)
(* file it finds at CONFIG_PATH, the handlers and commands call get, the   *)
(* configuration commands call update with the fields they set, and the    *)
(* bot may be started again at any time.                                   *)
(***************************************************************************)
\* "../2"
OtherVault == <<".", ".", "/", "2">>

\* the table _save writes for one record with the default values
OneRecord == _save(Put(<<>>, 1, GuildConfig(1)), Missing)

\* the documents the bot may find: no file, text that is no JSON, "[]",
\* a saved table, {"1": {"guild_id": 2}}, {"1": {}}, {"g": {...}}, {"1": 7}
StartFiles ==
    {Missing,
     [kind |-> "text"],
     [kind |-> "array"],
     OneRecord,
     [kind |-> "object",
      members |-> <<[key |-> <<"1">>,
                     value |-> [kind |-> "object", fields |-> [guild_id |-> 2]]]>>],
     [kind |-> "object",
      members |-> <<[key |-> <<"1">>,
                     value |-> [kind |-> "object", fields |-> <<>>]]>>],
     [kind |-> "object",
      members |-> <<[key |-> <<"g">>, value |-> OneRecord.members[1].value]>>],
     [kind |-> "object",
      members |-> <<[key |-> <<"1">>, value |-> [kind |-> "number"]]>>]}

InitConfig ==
    /\ args = [op |-> "none"]
    /\ ret = <<>>
    /\ _cache = <<>>
    /\ configs_json \in StartFiles
    /\ config = GuildConfig(1)
    /\ files = NoFiles
    /\ ArchiveStart

\* /obsidian config set_export_mode (bot.py line 150); custom_days 0 stands
\* for the option left out, and "custom_days or 7" gives 7 for both
config_set_export_mode(guild_id, mode, custom_days) ==
    Update(guild_id, [export_mode |-> mode,
                      custom_period_days |-> IF custom_days = 0 THEN 7 ELSE custom_days])

\* /obsidian config set_vault_path (bot.py line 175)
config_set_vault_path(guild_id, vault_path) ==
    Update(guild_id, [vault_path |-> vault_path])

NextConfig ==
    \/ Load
    \/ \E guild_id \in GuildIds : Get(guild_id)
    \/ \E guild_id \in GuildIds, mode \in {"single", "daily", "custom"},
          custom_days \in {0, 3} :
            config_set_export_mode(guild_id, mode, custom_days)
    \/ \E guild_id \in GuildIds, vault_path \in {Vaults, OtherVault} :
            config_set_vault_path(guild_id, vault_path)

SpecConfig == InitConfig /\ [][NextConfig]_vars

(***************************************************************************)
(* SpecConfigApi: get and update called with any guild id and any keyword  *)
(* arguments: names of fields, the guild id among them, a name no          *)
(* attribute has, the name of a method, and __dict__.                      *)
(***************************************************************************)
ApiChanges ==
    {[vault_path |-> OtherVault],
     [guild_id |-> 2],
     [nickname |-> General],
     [vault_path |-> OtherVault, nickname |-> General],
     [to_dict |-> 0],
     [to_dict |-> 0, vault_path |-> OtherVault],
     [__dict__ |-> GuildConfig(2)]}

InitConfigApi ==
    /\ args = [op |-> "load"]
    /\ ret = <<_load(Missing)>>
    /\ _cache = <<>>
    /\ configs_json = Missing
    /\ config = GuildConfig(1)
    /\ files = NoFiles
    /\ ArchiveStart

NextConfigApi ==
    \/ \E guild_id \in GuildIds : Get(guild_id)
    \/ \E guild_id \in GuildIds, kwargs \in ApiChanges : Update(guild_id, kwargs)

SpecConfigApi == InitConfigApi /\ [][NextConfigApi]_vars

(***************************************************************************)
(* Properties of determine_file_path (SpecResolve).                        *)
(***************************************************************************)
Resolved(i) == Len(ret) >= i

SameChannel == args.requests[1].channel_name = args.requests[2].channel_name

GuildDir(guild_id) == STORAGE_ROOT \o <<str(guild_id)>>

\* C7: the path determine_file_path returns lies inside
\* root/{guild_id}/{vault_path}/ of the configuration's own guild, and so
\* under no other guild's directory.
C7_PathInsideOwnGuildVault ==
    \A i \in 1..Len(ret) :
        /\ IsPrefix(resolved(_base_dir(args.config.guild_id, args.config.vault_path)),
                    resolved(ret[i]))
        /\ IsPrefix(GuildDir(args.config.guild_id), resolved(ret[i]))
        /\ \A g \in GuildIds \ {args.config.guild_id} :
               ~IsPrefix(GuildDir(g), resolved(ret[i]))

\* C9: two distinct channel names never sanitize to the same slug, so two
\* different channels of one guild never resolve to the same file.
C9_DistinctChannelsDistinctFiles ==
    (Resolved(2) /\ ~SameChannel) =>
        /\ _safe(args.requests[1].channel_name) # _safe(args.requests[2].channel_name)
        /\ ret[1] # ret[2]

LocalDay(i) ==
    civil_from_days(
        (args.requests[i].timestamp + utcoffset(args.config.timezone)) \div 24)

UtcDay(i) == civil_from_days(args.requests[i].timestamp \div 24)

\* C10: for one configuration and channel name, two timestamps resolve to
\* the same path in daily mode exactly when their dates in the configured
\* zone are equal, and in monthly mode exactly when their year and month in
\* that zone are equal.
C10_BucketByLocalDate ==
    (Resolved(2) /\ SameChannel) =>
        /\ args.config.export_mode = "daily" =>
               ((ret[1] = ret[2]) <=> (LocalDay(1) = LocalDay(2)))
        /\ args.config.export_mode = "monthly" =>
               ((ret[1] = ret[2]) <=>
                    (/\ LocalDay(1).year = LocalDay(2).year
                     /\ LocalDay(1).month = LocalDay(2).month))

\* daily mode: two timestamps of one UTC date on two local dates resolved to
\* two paths
C10_Witness ==
    /\ Resolved(2)
    /\ SameChannel
    /\ args.config.export_mode = "daily"
    /\ UtcDay(1) = UtcDay(2)
    /\ LocalDay(1) # LocalDay(2)
    /\ ret[1] # ret[2]

(***************************************************************************)
(* StorageManager: writing and maintenance. fs is a file tree, keyed by    *)
(* the resolved path; a missing key is a missing file.                     *)
(***************************************************************************)
All == <<"a","l","l">>
Varies == <<"v","a","r","i","e","s">>

\* MARKDOWN_HEADER.format(...) as _ensure_header fills it
header(cfg, channel_name, timestamp, now) ==
    [kind |-> "header",
     channel |-> channel_name,
     server |-> cfg.guild_id,
     period |-> CASE cfg.export_mode = "single" -> All
                  [] cfg.export_mode = "daily" -> strftime_date(timestamp)
                  [] cfg.export_mode = "monthly" -> strftime_month(timestamp)
                  [] OTHER -> Varies,
     export_mode |-> cfg.export_mode,
     generated_on |-> now]

\* the entry text append_message builds
entry(message_id, timestamp, event) ==
    [kind |-> "entry",
     stamp |-> strftime_stamp(timestamp),
     message_id |-> message_id,
     event |-> event]

\* _ensure_header that tests only path.exists()
header_needed_unless_exists(fs, path) == resolved(path) \notin DOMAIN fs

\* _ensure_header that always writes
header_needed_always(fs, path) == TRUE

\* the test of _ensure_header: not (path.exists() and path.stat().st_size > 0)
header_needed(fs, path) ==
    ~(resolved(path) \in DOMAIN fs /\ Len(fs[resolved(path)]) > 0)

\* path.write_text(text): creates or truncates, then writes
write_text(fs, path, block) ==
    [p \in DOMAIN fs \cup {resolved(path)} |->
        IF p = resolved(path) THEN <<block>> ELSE fs[p]]

\* the entry written through open("w"), which truncates
append_text_truncating(fs, path, block) ==
    [p \in DOMAIN fs \cup {resolved(path)} |->
        IF p = resolved(path) THEN <<block>> ELSE fs[p]]

\* open("a").write(text): creates if missing, writes at the end
append_text(fs, path, block) ==
    [p \in DOMAIN fs \cup {resolved(path)} |->
        IF p # resolved(path) THEN fs[p]
        ELSE IF p \in DOMAIN fs THEN Append(fs[p], block)
        ELSE <<block>>]

\* path.unlink(missing_ok=True)
unlink(fs, path) == [p \in DOMAIN fs \ {resolved(path)} |-> fs[p]]

\* StorageManager._ensure_header
_ensure_header(fs, path, cfg, channel_name, timestamp, now) ==
    IF header_needed(fs, path)
    THEN write_text(fs, path, header(cfg, channel_name, timestamp, now))
    ELSE fs

\* StorageManager.append_message, the file tree it leaves
append_message(fs, cfg, channel_name, message_id, timestamp, event, now) ==
    LET file_path == determine_file_path(cfg, channel_name, timestamp)
    IN  append_text(
            _ensure_header(fs, file_path, cfg, channel_name, timestamp, now),
            file_path, entry(message_id, timestamp, event))

\* fnmatch(name, "*.md")
MatchesMd(name) ==
    Len(name) >= 3 /\ SubSeq(name, Len(name) - 2, Len(name)) = MdSuffix

\* StorageManager.list_files: base_dir.rglob("*.md"), each path as base_dir
\* followed by the parts below it
list_files(fs, cfg) ==
    LET base_dir == _base_dir(cfg.guild_id, cfg.vault_path)
        below == {p \in DOMAIN fs :
                    /\ IsPrefix(resolved(base_dir), p)
                    /\ Len(p) > Len(resolved(base_dir))
                    /\ MatchesMd(p[Len(p)])}
    IN  {base_dir \o SubSeq(p, Len(resolved(base_dir)) + 1, Len(p)) : p \in below}

Parts(path) == {path[i] : i \in 1..Len(path)}

\* the test in purge's loop; None and "" are both false in "if channel_name"
purge_skips(path, channel_name) ==
    channel_name # <<>> /\ _safe(channel_name) \notin Parts(path)

\* the paths purge unlinks out of a listing
purge_targets(paths, channel_name) ==
    {path \in paths : ~purge_skips(path, channel_name)}

RECURSIVE unlink_all(_, _)
unlink_all(fs, paths) ==
    IF paths = {} THEN fs
    ELSE LET path == CHOOSE x \in paths : TRUE
         IN  unlink_all(unlink(fs, path), paths \ {path})

(***************************************************************************)
(* History variables: what was written to and unlinked from each path.     *)
(***************************************************************************)
\* appended after an append_message call that wrote to path
Recorded(fs, path, channel_name, message_id, event) ==
    LET p == resolved(path)
        line == [channel_name |-> channel_name, message_id |-> message_id,
                 event |-> event]
    IN  [q \in DOMAIN appended \cup {p} |->
            IF q # p THEN appended[q]
            ELSE IF q \in DOMAIN appended /\ q \in DOMAIN fs /\ fs[q] # <<>>
                 THEN Append(appended[q], line)
            ELSE <<line>>]

Forgotten(paths) ==
    [q \in DOMAIN appended \ {resolved(path) : path \in paths} |-> appended[q]]

\* the channel names whose entries a file holds
ChannelsOf(p) ==
    IF p \in DOMAIN appended
    THEN {appended[p][i].channel_name : i \in 1..Len(appended[p])}
    ELSE {}

(***************************************************************************)
(* Spec: the bot. Every handler of bot.py runs to its next await, and      *)
(* append_message and purge hold none, so each call is one step; the       *)
(* backfill command awaits between the messages of the history and live    *)
(* events are handled in between.                                          *)
(***************************************************************************)
BotChannels == {General, Data}

BotModes == {"single", "daily"}

\* 2024-01-31T00:00Z and 2024-02-01T00:00Z
EventTimes == {FirstHour, FirstHour + 24}

PurgeNames == {None} \cup BotChannels

LastTime == IF sent = <<>> THEN FirstHour ELSE sent[Len(sent)].timestamp

InitBot ==
    /\ args = <<>>
    /\ ret = <<>>
    /\ config \in {[GuildConfig(1) EXCEPT !.export_mode = m] : m \in BotModes}
    /\ files \in {NoFiles,
                  [p \in {resolved(determine_file_path(config, General, FirstHour))}
                      |-> <<>>]}
    /\ ArchiveStart
    /\ ConfigStart

\* ObsidianBot._persist_message: one append_message call
PersistMessage(message, event) ==
    LET path == determine_file_path(config, message.channel_name, message.timestamp)
    IN  /\ clock < MaxAppends
        /\ files' = append_message(files, config, message.channel_name, message.id,
                                   message.timestamp, event, clock)
        /\ dirs' = dirs \cup determine_file_path_mkdirs(
                                config, message.channel_name, message.timestamp)
        /\ clock' = clock + 1
        /\ appended' = Recorded(files, path, message.channel_name, message.id, event)

\* on_message: a new message of a channel
OnMessage ==
    \E channel_name \in BotChannels, timestamp \in EventTimes :
        LET message == [id |-> Len(sent) + 1, channel_name |-> channel_name,
                        timestamp |-> timestamp]
        IN  /\ timestamp >= LastTime
            /\ PersistMessage(message, "message")
            /\ sent' = Append(sent, message)
            /\ UNCHANGED <<configVars, args, ret, config, backfill, calls, purged, lastPurge>>

\* on_message_edit: an edit of a message the channel holds
OnMessageEdit ==
    \E i \in 1..Len(sent) :
        /\ PersistMessage(sent[i], "edited")
        /\ UNCHANGED <<configVars, args, ret, config, sent, backfill, calls, purged, lastPurge>>

\* on_message_delete
OnMessageDelete ==
    \E i \in 1..Len(sent) :
        /\ PersistMessage(sent[i], "deleted")
        /\ UNCHANGED <<configVars, args, ret, config, sent, backfill, calls, purged, lastPurge>>

\* config_backfill up to its first await: channel.history(oldest_first=True)
BackfillStart ==
    \E channel_name \in BotChannels :
        /\ ~backfill.running
        /\ backfill' = [queue |-> SelectSeq(sent, LAMBDA m : m.channel_name = channel_name),
                        count |-> 0, running |-> TRUE]
        /\ UNCHANGED <<configVars, args, ret, config, files, dirs, clock, sent, calls,
                       appended, purged, lastPurge>>

\* one turn of its loop: await bot._persist_message(config, message)
BackfillNext ==
    /\ backfill.running
    /\ backfill.queue # <<>>
    /\ PersistMessage(Head(backfill.queue), "message")
    /\ backfill' = [backfill EXCEPT !.queue = Tail(@), !.count = @ + 1]
    /\ UNCHANGED <<configVars, args, ret, config, sent, calls, purged, lastPurge>>

\* the history is exhausted: followup.send
BackfillDone ==
    /\ backfill.running
    /\ backfill.queue = <<>>
    /\ backfill' = [backfill EXCEPT !.running = FALSE]
    /\ UNCHANGED <<configVars, args, ret, config, files, dirs, clock, sent, calls,
                   appended, purged, lastPurge>>

\* the files of gone with the channels each held entries of
Unlinked(gone) == {[path |-> p, channels |-> ChannelsOf(p)] : p \in gone}

\* what a purge call is recorded as: its argument, its return value, and the
\* files it removed
PurgeRecord(channel_name, removed, unlinked) ==
    [channel_name |-> channel_name, removed |-> removed, unlinked |-> unlinked]

\* the purge command: StorageManager.purge
Purge ==
    \E channel_name \in PurgeNames :
        LET paths == list_files(files, config)
            targets == purge_targets(paths, channel_name)
            gone == {resolved(path) : path \in targets} \cap DOMAIN files
        IN  /\ Len(lastPurge) < MaxPurges
            /\ files' = unlink_all(files, targets)
            /\ dirs' = dirs \cup mkdir_parents(_base_dir(config.guild_id, config.vault_path))
            /\ appended' = Forgotten(targets)
            /\ purged' = purged \cup gone
            /\ lastPurge' = Append(lastPurge,
                                PurgeRecord(channel_name, Cardinality(targets),
                                            Unlinked(gone)))
            /\ UNCHANGED <<configVars, args, ret, config, clock, sent, backfill, calls>>

Next ==
    \/ OnMessage
    \/ OnMessageEdit
    \/ OnMessageDelete
    \/ BackfillStart
    \/ BackfillNext
    \/ BackfillDone
    \/ Purge

Spec == InitBot /\ [][Next]_vars

(***************************************************************************)
(* SpecCallers: StorageManager called by two callers at once. The class    *)
(* holds no lock, and append_message and purge are sequences of separate   *)
(* file operations (the test of line 91, write_text, the append; the       *)
(* listing, each unlink), so the steps of two calls interleave.            *)
(***************************************************************************)
CallsStarted ==
    clock + Len(lastPurge) + Cardinality({c \in Callers : calls[c].op = "purge"})

InitCallers ==
    /\ args = <<>>
    /\ ret = <<>>
    /\ config \in {[GuildConfig(1) EXCEPT !.export_mode = m] : m \in BotModes}
    /\ files = NoFiles
    /\ ArchiveStart
    /\ ConfigStart

\* append_message up to the test in _ensure_header (lines 122-123, 91)
AppendResolve(c) ==
    \E channel_name \in BotChannels, timestamp \in EventTimes :
        LET path == determine_file_path(config, channel_name, timestamp)
            message == [id |-> Len(sent) + 1, channel_name |-> channel_name,
                        timestamp |-> timestamp]
        IN  /\ calls[c].op = "idle"
            /\ CallsStarted < MaxCalls
            /\ timestamp >= LastTime
            /\ sent' = Append(sent, message)
            /\ clock' = clock + 1
            /\ dirs' = dirs \cup determine_file_path_mkdirs(config, channel_name, timestamp)
            /\ calls' = [calls EXCEPT ![c] =
                            [op |-> "append",
                             pc |-> IF header_needed(files, path)
                                    THEN "write_text" ELSE "open_append",
                             path |-> path,
                             message |-> message,
                             now |-> clock]]
            /\ UNCHANGED <<configVars, args, ret, config, files, backfill, appended, purged, lastPurge>>

\* _ensure_header from the test on: path.write_text(header) (lines 93-107)
AppendWriteHeader(c) ==
    /\ calls[c].op = "append"
    /\ calls[c].pc = "write_text"
    /\ files' = write_text(files, calls[c].path,
                           header(config, calls[c].message.channel_name,
                                  calls[c].message.timestamp, calls[c].now))
    /\ calls' = [calls EXCEPT ![c].pc = "open_append"]
    /\ UNCHANGED <<configVars, args, ret, config, dirs, clock, sent, backfill, appended,
                   purged, lastPurge>>

\* the rest of append_message: the entry is appended (lines 124-139)
AppendWriteEntry(c) ==
    /\ calls[c].op = "append"
    /\ calls[c].pc = "open_append"
    /\ files' = append_text(files, calls[c].path,
                            entry(calls[c].message.id, calls[c].message.timestamp,
                                  "message"))
    /\ appended' = Recorded(files, calls[c].path, calls[c].message.channel_name,
                            calls[c].message.id, "message")
    /\ calls' = [calls EXCEPT ![c] = Idle]
    /\ UNCHANGED <<configVars, args, ret, config, dirs, clock, sent, backfill, purged, lastPurge>>

\* purge up to its loop: paths = self.list_files(config) (lines 164-165)
PurgeList(c) ==
    \E channel_name \in PurgeNames :
        /\ calls[c].op = "idle"
        /\ CallsStarted < MaxCalls
        /\ dirs' = dirs \cup mkdir_parents(_base_dir(config.guild_id, config.vault_path))
        /\ calls' = [calls EXCEPT ![c] =
                        [op |-> "purge",
                         channel_name |-> channel_name,
                         paths |-> list_files(files, config),
                         removed |-> 0,
                         unlinked |-> {}]]
        /\ UNCHANGED <<configVars, args, ret, config, files, clock, sent, backfill, appended,
                       purged, lastPurge>>

\* one turn of purge's loop (lines 166-170)
PurgeUnlink(c) ==
    /\ calls[c].op = "purge"
    /\ \E path \in calls[c].paths :
          LET gone == {resolved(path)} \cap DOMAIN files
          IN  IF purge_skips(path, calls[c].channel_name)
              THEN /\ calls' = [calls EXCEPT ![c].paths = @ \ {path}]
                   /\ UNCHANGED <<files, appended, purged>>
              ELSE /\ files' = unlink(files, path)
                   /\ calls' = [calls EXCEPT ![c].paths = @ \ {path},
                                             ![c].removed = @ + 1,
                                             ![c].unlinked = @ \cup Unlinked(gone)]
                   /\ appended' = Forgotten({path})
                   /\ purged' = purged \cup gone
    /\ UNCHANGED <<configVars, args, ret, config, dirs, clock, sent, backfill, lastPurge>>

\* return removed (line 171)
PurgeReturn(c) ==
    /\ calls[c].op = "purge"
    /\ calls[c].paths = {}
    /\ lastPurge' = Append(lastPurge,
                           PurgeRecord(calls[c].channel_name, calls[c].removed,
                                       calls[c].unlinked))
    /\ calls' = [calls EXCEPT ![c] = Idle]
    /\ UNCHANGED <<configVars, args, ret, config, files, dirs, clock, sent, backfill,
                   appended, purged>>

NextCallers ==
    \E c \in Callers :
        \/ AppendResolve(c)
        \/ AppendWriteHeader(c)
        \/ AppendWriteEntry(c)
        \/ PurgeList(c)
        \/ PurgeUnlink(c)
        \/ PurgeReturn(c)

SpecCallers == InitCallers /\ [][NextCallers]_vars
\* the local day number of request i, its day of the year counted from 1,
\* and the period length in use
LocalDayNumber(i) ==
    (args.requests[i].timestamp + utcoffset(args.config.timezone)) \div 24

DayOfYear(i) ==
    LocalDayNumber(i) - days_from_civil(LocalDay(i).year, 1, 1) + 1

PeriodDays ==
    IF args.config.custom_period_days <= 0 THEN 1 ELSE args.config.custom_period_days

BucketStartDay(i) == LocalDayNumber(i) - (DayOfYear(i) % PeriodDays)

CustomFileName(i) ==
    LET start == civil_from_days(BucketStartDay(i))
    IN  format_d(start.year, 4) \o <<"-">> \o format_d(start.month, 2) \o <<"-">>
        \o format_d(start.day, 2) \o <<"_", "d">> \o str(PeriodDays) \o MdSuffix

\* C11: in custom mode the file is {slug}/{bucket start}_d{days}.md with
\* days = max(1, custom_period_days) and bucket start = local date minus
\* (day of year mod days) days, the day of the year counted from 1; a period
\* of 0 or less counts as 1; with days = 7 a local date that is day 10 of
\* its year starts its bucket on day 7.
C11_CustomBucketFileName ==
    \A i \in 1..Len(ret) :
        args.config.export_mode = "custom" =>
            /\ ret[i] = _base_dir(args.config.guild_id, args.config.vault_path)
                        \o <<_safe(args.requests[i].channel_name), CustomFileName(i)>>
            /\ (PeriodDays = 7 /\ DayOfYear(i) = 10) =>
                   BucketStartDay(i) = days_from_civil(LocalDay(i).year, 1, 7)

\* custom mode with 7 days resolved a date that is day 10 of its year in the
\* zone and day 11 in UTC
C11_Witness ==
    /\ Resolved(2)
    /\ args.config.export_mode = "custom"
    /\ PeriodDays = 7
    /\ DayOfYear(2) = 10
    /\ tm_yday(args.requests[2].timestamp) = 11

\* an instant on the bucket-start date of request i: the same time of day,
\* (day of year mod days) days earlier
BucketStartTimestamp(i) ==
    args.requests[i].timestamp - 24 * (DayOfYear(i) % PeriodDays)

\* C23: in custom mode the date in a file's name belongs to the file's own
\* bucket: resolving the bucket-start date computed for a local date gives
\* the same path as resolving that date, also at the start of a year.
C23_BucketStartInOwnBucket ==
    \A i \in 1..Len(ret) :
        args.config.export_mode = "custom" =>
            determine_file_path(args.config, args.requests[i].channel_name,
                                BucketStartTimestamp(i)) = ret[i]


(***************************************************************************)
(* SpecAdmin: one guild whose administrators change the export mode and    *)
(* the timezone between events. Files written under one configuration are  *)
(* in the tree when paths are resolved under another, so the calls that    *)
(* touch the file system can fail: mkdir raises FileExistsError where a    *)
(* file has the name of the directory, and open raises IsADirectoryError   *)
(* where a directory has the name of the file.                             *)
(***************************************************************************)
GeneralMd == General \o MdSuffix

AdminChannels == {General, GeneralMd}

AdminModes == {"single", "daily"}

AdminZones == {"UTC", "Pacific/Honolulu"}

\* path.mkdir(parents=True, exist_ok=True) raises: the path or one of its
\* parents is a file
mkdir_raises(fs, path) ==
    \E k \in 1..Len(resolved(path)) : SubSeq(resolved(path), 1, k) \in DOMAIN fs

\* determine_file_path raises at line 44 or at line 86
determine_file_path_raises(fs, cfg, channel_name, timestamp) ==
    \/ mkdir_raises(fs, _base_dir(cfg.guild_id, cfg.vault_path))
    \/ mkdir_raises(fs, parent(determine_file_path(cfg, channel_name, timestamp)))

\* the directories a call of determine_file_path makes in the tree fs
determine_file_path_makes(fs, cfg, channel_name, timestamp) ==
    IF mkdir_raises(fs, _base_dir(cfg.guild_id, cfg.vault_path)) THEN {}
    ELSE IF determine_file_path_raises(fs, cfg, channel_name, timestamp)
         THEN mkdir_parents(_base_dir(cfg.guild_id, cfg.vault_path))
         ELSE determine_file_path_mkdirs(cfg, channel_name, timestamp)

\* what a call of determine_file_path gives: the path, or the exception
determine_file_path_call(fs, cfg, channel_name, timestamp) ==
    IF determine_file_path_raises(fs, cfg, channel_name, timestamp)
    THEN [path |-> None, raised |-> "FileExistsError"]
    ELSE [path |-> determine_file_path(cfg, channel_name, timestamp), raised |-> None]

InitAdmin ==
    /\ args \in [config : {[GuildConfig(1) EXCEPT !.export_mode = m, !.timezone = z] :
                              m \in AdminModes, z \in AdminZones},
                 channel_name : AdminChannels,
                 timestamp : {FirstHour}]
    /\ ret = <<>>
    /\ config = GuildConfig(1)
    /\ files = NoFiles
    /\ ArchiveStart
    /\ ConfigStart

\* /obsidian config set_export_mode: update(guild.id, export_mode=mode,
\* custom_period_days=custom_days or 7)
SetExportMode ==
    \E mode \in AdminModes :
        /\ config' = [config EXCEPT !.export_mode = mode, !.custom_period_days = 7]
        /\ UNCHANGED <<configVars, args, ret, files, dirs, clock, sent, backfill, calls,
                       appended, purged, lastPurge>>

\* /obsidian config set_timezone: update(guild.id, timezone=timezone_name)
SetTimezone ==
    \E timezone_name \in AdminZones :
        /\ config' = [config EXCEPT !.timezone = timezone_name]
        /\ UNCHANGED <<configVars, args, ret, files, dirs, clock, sent, backfill, calls,
                       appended, purged, lastPurge>>

\* on_message in any tree: append_message raises out of determine_file_path,
\* or out of open("a") on a directory, or writes as in PersistMessage
AdminOnMessage ==
    \E channel_name \in AdminChannels :
        LET message == [id |-> Len(sent) + 1, channel_name |-> channel_name,
                        timestamp |-> FirstHour]
            path == determine_file_path(config, channel_name, FirstHour)
            made == determine_file_path_makes(files, config, channel_name, FirstHour)
        IN  /\ clock < MaxAppends
            /\ sent' = Append(sent, message)
            /\ clock' = clock + 1
            /\ dirs' = dirs \cup made
            /\ IF \/ determine_file_path_raises(files, config, channel_name, FirstHour)
                  \/ resolved(path) \in dirs
               THEN UNCHANGED <<files, appended>>
               ELSE /\ files' = append_message(files, config, channel_name, message.id,
                                               FirstHour, "message", clock)
                    /\ appended' = Recorded(files, path, channel_name, message.id,
                                            "message")
            /\ UNCHANGED <<configVars, args, ret, config, backfill, calls, purged, lastPurge>>

\* /obsidian purge without a channel name
AdminPurge ==
    LET targets == purge_targets(list_files(files, config), None)
    IN  /\ targets # {}
        /\ files' = unlink_all(files, targets)
        /\ appended' = Forgotten(targets)
        /\ purged' = purged \cup {resolved(path) : path \in targets}
        /\ dirs' = dirs \cup mkdir_parents(_base_dir(config.guild_id, config.vault_path))
        /\ UNCHANGED <<configVars, args, ret, config, clock, sent, backfill, calls, lastPurge>>

\* determine_file_path called for the request of args in the tree as it is
AdminResolve ==
    /\ Len(ret) < MaxResolves
    /\ ret' = Append(ret, determine_file_path_call(
                        files, args.config, args.channel_name, args.timestamp))
    /\ dirs' = dirs \cup determine_file_path_makes(
                        files, args.config, args.channel_name, args.timestamp)
    /\ UNCHANGED <<configVars, args, archiveVars>>

NextAdmin ==
    \/ SetExportMode
    \/ SetTimezone
    \/ AdminOnMessage
    \/ AdminPurge
    \/ AdminResolve

SpecAdmin == InitAdmin /\ [][NextAdmin]_vars
\* C18: determine_file_path leaves the file tree as it is: it creates,
\* changes and deletes no file and no directory.
C18_ResolveLeavesTreeUnchanged ==
    [][dirs' = dirs /\ files' = files]_vars


(***************************************************************************)
(* Properties of the archive under the bot's scheduling (Spec).            *)
(***************************************************************************)
HeaderCount(blocks) ==
    Cardinality({i \in 1..Len(blocks) : blocks[i].kind = "header"})

IsEntryOf(block, line) ==
    /\ block.kind = "entry"
    /\ block.message_id = line.message_id
    /\ block.event = line.event

\* C1: after N >= 1 sequential append_message calls that resolve to one path,
\* starting from a missing or zero-length file, the file is one header block
\* followed by the N entry blocks in call order.
C1_HeaderThenEntriesInCallOrder ==
    \A p \in DOMAIN appended :
        /\ p \in DOMAIN files
        /\ Len(files[p]) = Len(appended[p]) + 1
        /\ files[p][1].kind = "header"
        /\ \A i \in 1..Len(appended[p]) : IsEntryOf(files[p][i + 1], appended[p][i])

\* two calls wrote to one path: a header and their two entries
C1_Witness ==
    \E p \in DOMAIN appended :
        /\ Len(appended[p]) >= 2
        /\ Len(files[p]) = Len(appended[p]) + 1

C4_PurgeOnlyOwnChannel ==
    \A i \in 1..Len(lastPurge) :
        lastPurge[i].channel_name # None =>
            /\ \A u \in lastPurge[i].unlinked :
                   u.channels # {} =>
                       \E c \in u.channels : _safe(c) = _safe(lastPurge[i].channel_name)
            /\ lastPurge[i].removed = Cardinality(lastPurge[i].unlinked)

\* C6: after purge has deleted a file, the next append_message that resolves
\* to its path recreates it as one fresh header followed by that one entry.
C6_RecreatedAfterPurge ==
    [][\A p \in purged :
          (p \notin DOMAIN files /\ p \in DOMAIN files') =>
              /\ Len(files'[p]) = 2
              /\ files'[p][1].kind = "header"
              /\ files'[p][1].generated_on = clock
              /\ clock' = clock + 1
              /\ Len(appended'[p]) = 1
              /\ IsEntryOf(files'[p][2], appended'[p][1])]_vars

\* a purged path holds a file again
C6_Witness ==
    \E p \in purged : p \in DOMAIN files /\ Len(files[p]) = 2

\* C21: purge with a channel name removes every archive file of that
\* channel in every export mode: when the purge has returned, no file that
\* append_message wrote for the channel is left in the guild's vault.
C21_PurgeRemovesChannelFiles ==
    [][lastPurge' # lastPurge =>
          LET channel_name == lastPurge'[Len(lastPurge')].channel_name
          IN  channel_name # None =>
                  \A p \in DOMAIN files' \cap DOMAIN appended' :
                      \A i \in 1..Len(appended'[p]) :
                          appended'[p][i].channel_name # channel_name]_vars

(***************************************************************************)
(* Properties of the archive under concurrent callers (SpecCallers).       *)
(***************************************************************************)
Entries(blocks) == SelectSeq(blocks, LAMBDA b : b.kind = "entry")

\* C2: append_message never truncates or reorders a file: the entries a file
\* holds stay in it, in their order, through every later step of an append
\* on that path, also when two appends interleave between the test, the
\* header write and the entry append.
C2_AppendNeverTruncates ==
    [][\A p \in DOMAIN files \cap DOMAIN files' :
          IsPrefix(Entries(files[p]), Entries(files'[p]))]_vars

\* C5: a file already missing when purge unlinks it is not counted: purge
\* returns the number of files that this purge removed.
C5_PurgeCountsOwnRemovals ==
    \A i \in 1..Len(lastPurge) :
        lastPurge[i].removed = Cardinality(lastPurge[i].unlinked)

(***************************************************************************)
(* Properties of the archive under changing configuration (SpecAdmin).     *)
(***************************************************************************)
FileName(p) == p[Len(p)]

\* C12: the time in the heading of an entry is the event time in the guild's
\* zone, so in a file of daily mode the date in every entry's heading is the
\* date in the file's name.
C12_HeadingDateIsFileDate ==
    \A p \in DOMAIN files :
        (files[p] # <<>> /\ files[p][1].kind = "header"
                         /\ files[p][1].export_mode = "daily") =>
            \A i \in 2..Len(files[p]) :
                SubSeq(files[p][i].stamp, 1, 10) = SubSeq(FileName(p), 1, 10)

\* C24: the period of a file's header is "all" in single mode and "varies"
\* in custom and template modes; in daily mode it is the date and in monthly
\* mode the year and month of the file's bucket, the date part of the file's
\* name, in every configured zone.
C24_PeriodLabelIsFileBucket ==
    \A p \in DOMAIN files :
        (files[p] # <<>> /\ files[p][1].kind = "header") =>
            LET written == files[p][1]
            IN  written.period =
                    CASE written.export_mode = "single" -> All
                      [] written.export_mode = "daily" -> SubSeq(FileName(p), 1, 10)
                      [] written.export_mode = "monthly" -> SubSeq(FileName(p), 1, 7)
                      [] OTHER -> Varies

\* C19: determine_file_path gives the same path for the same configuration,
\* channel name and timestamp on every call, whatever ran before and
\* whatever the tree holds.
C19_SameRequestSamePath ==
    \A i, j \in 1..Len(ret) : ret[i] = ret[j]

(***************************************************************************)
(* Properties of ConfigManager (SpecConfig, SpecConfigApi).                *)
(***************************************************************************)
\* the record of guild g before a call: the one held, or the default one
Before(g) == IF g \in DOMAIN _cache THEN _cache[g] ELSE GuildConfig(g)

\* the document holds exactly the table: a manager started on it holds it
Persisted(document, cache) ==
    /\ ~Raised(_load(document))
    /\ _load(document).cache = cache

\* C13: get never fails; for a guild without a record it adds one record
\* of default values under that id and persists the table; for a guild with
\* a record it returns that record and leaves table and file as they are;
\* the records of the other guilds stay as they are.
C13_GetAddsDefaultOrReturns ==
    [][args'.op = "get" =>
          LET g == args'.guild_id
          IN  /\ ~Raised(ret'[1])
              /\ ret'[1].returned = _cache'[g]
              /\ DOMAIN _cache' = DOMAIN _cache \cup {g}
              /\ \A h \in DOMAIN _cache : _cache'[h] = _cache[h]
              /\ IF g \in DOMAIN _cache
                 THEN configs_json' = configs_json
                 ELSE /\ _cache'[g] = GuildConfig(g)
                      /\ Persisted(configs_json', _cache')]_vars

\* get added a default record next to a record that update had changed
C13_Witness ==
    /\ args.op = "get"
    /\ ret[1].returned = GuildConfig(args.guild_id)
    /\ \E h \in DOMAIN _cache \ {args.guild_id} : _cache[h] # GuildConfig(h)

\* C14: update changes exactly the named fields of the record, ignores a
\* name that is no field without error and without effect, leaves the other
\* fields and the other records as they are, and persists the table.
C14_UpdateChangesNamedFieldsOnly ==
    [][args'.op = "update" =>
          LET g == args'.guild_id
              kwargs == args'.kwargs
          IN  /\ ~Raised(ret'[1])
              /\ DOMAIN _cache' = DOMAIN _cache \cup {g}
              /\ DOMAIN _cache'[g] = Fields
              /\ \A name \in Fields :
                     _cache'[g][name] = IF name \in DOMAIN kwargs THEN kwargs[name]
                                        ELSE Before(g)[name]
              /\ \A h \in DOMAIN _cache \ {g} : _cache'[h] = _cache[h]
              /\ Persisted(configs_json', _cache')]_vars

\* C15: the record stored under guild id g has guild_id = g, whatever get
\* and update calls were made.
C15_GuildIdImmutable ==
    \A g \in DOMAIN _cache : _cache[g].guild_id = g

\* the document is a table: an object whose member names are guild ids and
\* whose member values are complete records
WellFormedTable(document) ==
    /\ document.kind = "object"
    /\ \A i \in 1..Len(document.members) :
          /\ IsDigits(document.members[i].key)
          /\ document.members[i].value.kind = "object"
          /\ DOMAIN document.members[i].value.fields = Fields

\* C16: loading never fails: a missing file gives an empty table, and so
\* does every content that is not a well-formed table.
C16_LoadNeverFails ==
    args.op = "load" =>
        /\ ~Raised(ret[1])
        /\ (configs_json.kind = "missing" \/ ~WellFormedTable(configs_json)) =>
               _cache = <<>>

\* C20: after every completed get or update the file holds the table in
\* memory: a manager started on it holds the same records, field for field.
C20_PersistedEqualsMemory ==
    (args.op \in {"get", "update"} /\ ~Raised(ret[1])) =>
        Persisted(configs_json, _cache)

\* update has stored a period of 3 days for one guild while the table holds
\* a record of the other guild
C20_Witness ==
    /\ args.op = "update"
    /\ ~Raised(ret[1])
    /\ _cache[args.guild_id].custom_period_days = 3
    /\ Cardinality(DOMAIN _cache) = 2

(***************************************************************************)
(* StorageManager.search. In SpecSearch a file is the sequence of its      *)
(* bytes: a character of ASCII, or the byte 0xFF, which no UTF-8 text has. *)
(***************************************************************************)
xFF == "0xFF"

\* str.lower() on ASCII text
lower(s) ==
    LET UpperCase == <<"A","B","C","D","E","F","G","H","I","J","K","L","M",
                       "N","O","P","Q","R","S","T","U","V","W","X","Y","Z">>
        LowerCase == <<"a","b","c","d","e","f","g","h","i","j","k","l","m",
                       "n","o","p","q","r","s","t","u","v","w","x","y","z">>
    IN  [i \in 1..Len(s) |->
            IF \E k \in 1..26 : UpperCase[k] = s[i]
            THEN LowerCase[CHOOSE k \in 1..26 : UpperCase[k] = s[i]]
            ELSE s[i]]

\* needle in haystack, for str
contains(needle, haystack) ==
    \E i \in 0..(Len(haystack) - Len(needle)) :
        SubSeq(haystack, i + 1, i + Len(needle)) = needle

\* path.read_text(encoding="utf-8", errors="ignore"): the bytes that decode,
\* in their order; a byte that does not is left out
read_text(bytes) == SelectSeq(bytes, LAMBDA b : b # xFF)

\* StorageManager.search, the paths it returns
search(fs, cfg, keyword) ==
    LET keyword_lower == lower(keyword)
    IN  {path \in list_files(fs, cfg) :
            contains(keyword_lower, lower(read_text(fs[resolved(path)])))}

\* the files of January 2024 of two channels of guild 1 and of one of guild 2
SearchFile(guild_id, channel_name) ==
    resolved(_base_dir(guild_id, Vaults)
             \o <<channel_name, <<"2","0","2","4","-","0","1">> \o MdSuffix>>)

InitSearch ==
    /\ args = [op |-> "none"]
    /\ ret = <<>>
    /\ config = GuildConfig(1)
    /\ LET SearchContents == {<<>>, <<"a", "b">>, <<"A", "B">>, <<"b", "a">>,
                               <<"a", xFF, "B">>, <<xFF>>, <<"a", "b", xFF>>}
       IN  \E general \in SearchContents, devops \in SearchContents :
             files = (SearchFile(1, General) :> general)
                  @@ (SearchFile(1, DevOpsDashed) :> devops)
                  @@ (SearchFile(2, General) :> <<"a", "b">>)
    /\ dirs = mkdir_parents(STORAGE_ROOT)
              \cup UNION {mkdir_parents(parent(SearchFile(g[1], g[2]))) :
                            g \in {<<1, General>>, <<1, DevOpsDashed>>, <<2, General>>}}
    /\ clock = 0
    /\ sent = <<>>
    /\ backfill = [queue |-> <<>>, count |-> 0, running |-> FALSE]
    /\ calls = [c \in Callers |-> Idle]
    /\ appended = NoFiles
    /\ purged = {}
    /\ lastPurge = <<>>
    /\ ConfigStart

\* /obsidian export search: storage_manager.search(config, keyword=keyword)
Search(keyword) ==
    /\ args' = [op |-> "search", keyword |-> keyword]
    /\ ret' = <<search(files, config, keyword)>>
    /\ dirs' = dirs \cup mkdir_parents(_base_dir(config.guild_id, config.vault_path))
    /\ UNCHANGED <<configVars, archiveVars>>

NextSearch ==
    \E keyword \in {<<>>, <<"a", "b">>, <<"B">>, <<"B", "A">>} : Search(keyword)

SpecSearch == InitSearch /\ [][NextSearch]_vars

\* the file holds a byte that does not decode
HasUndecodable(bytes) == \E i \in 1..Len(bytes) : bytes[i] = xFF

\* C17: search does not fail on undecodable bytes: a file that holds such
\* bytes is not among the matches, and every other listed file is among
\* them exactly when its text contains the keyword, letter case aside.
C17_UndecodableFileExcluded ==
    args.op = "search" =>
        \A path \in list_files(files, config) :
            LET bytes == files[resolved(path)]
            IN  IF HasUndecodable(bytes)
                THEN path \notin ret[1]
                ELSE path \in ret[1] <=> contains(lower(args.keyword), lower(bytes))

(***************************************************************************)
(* SpecLayout: append_message and list_files called with one               *)
(* configuration out of every guild, vault path, export mode and template, *)
(* for one channel name on two days.                                       *)
(***************************************************************************)
InitLayout ==
    /\ args \in LayoutInputs
    /\ ret = <<>>
    /\ config = args.config
    /\ files = NoFiles
    /\ ArchiveStart
    /\ ConfigStart

\* StorageManager.append_message for one of the requests
AppendMessage ==
    \E i \in 1..Len(args.requests) :
        LET request == args.requests[i]
            path == determine_file_path(config, request.channel_name, request.timestamp)
        IN  /\ clock < MaxAppends
            /\ files' = append_message(files, config, request.channel_name, clock + 1,
                                       request.timestamp, "message", clock)
            /\ dirs' = dirs \cup determine_file_path_mkdirs(
                                    config, request.channel_name, request.timestamp)
            /\ clock' = clock + 1
            /\ appended' = Recorded(files, path, request.channel_name, clock + 1, "message")
            /\ ret' = <<[op |-> "append_message", returned |-> path]>>
            /\ UNCHANGED <<configVars, args, config, sent, backfill, calls, purged,
                           lastPurge>>

\* StorageManager.list_files
ListFiles ==
    /\ ret' = <<[op |-> "list_files", returned |-> list_files(files, config)]>>
    /\ dirs' = dirs \cup mkdir_parents(_base_dir(config.guild_id, config.vault_path))
    /\ UNCHANGED <<configVars, args, archiveVars>>

NextLayout ==
    \/ AppendMessage
    \/ ListFiles

SpecLayout == InitLayout /\ [][NextLayout]_vars

\* C22: every file append_message wrote is among the files list_files
\* returns for the same configuration, in every export mode and for every
\* template and channel name.
C22_WrittenFilesAreListed ==
    (ret # <<>> /\ ret[1].op = "list_files") =>
        \A p \in DOMAIN appended \cap DOMAIN files :
            \E path \in ret[1].returned : resolved(path) = p

====
